---------------------------- MODULE Spec2Model ----------------------------
(***************************************************************************)
(* puckfetcher: the subscription update engine of one subscription         *)
(* (src/puckfetcher/subscription.py) as it is driven by the commands of    *)
(* Config (src/puckfetcher/config.py).                                     *)
(*                                                                         *)
(* Python values.  An optional value is a sequence of length <= 1: None is *)
(* <<>> and the value v is <<v>>, so that None can be compared with any    *)
(* value.  A queue job (index, overwrite) is the pair <<index, overwrite>>.*)
(* A feed entry is modelled by its identity, the number of the episode on  *)
(* the server: the feed the server returns is the window                   *)
(* server_lo..server_hi, newest first.  Every entry has enclosures; the    *)
(* enclosure loop of download_queue is one step (Finish) that an interrupt *)
(* can cut short (Interrupt).                                              *)
(***************************************************************************)
EXTENDS Integers, Sequences, FiniteSets, TLC

VARIABLES
    pc,                   \* position of the process: "start", "idle", "feed", "drain", "dl", "saving", "crashed"
    cmd,                  \* the Config command being run: "none", "update", "download_queue"
    name,                 \* Subscription.name
    current_url,          \* Subscription._current_url (optional)
    provided_url,         \* Subscription._provided_url
    temp_url,             \* Subscription._temp_url (optional)
    download_backlog,     \* Subscription.download_backlog
    backlog_limit,        \* Subscription.backlog_limit (optional int)
    entries,              \* _FeedState.entries, newest first
    entries_state_dict,   \* _FeedState.entries_state_dict: zero-based index -> bool
    queue,                \* _FeedState.queue
    latest_entry_number,  \* _FeedState.latest_entry_number (optional int)
    etag,                 \* _FeedState.etag (optional)
    last_modified,        \* _FeedState.last_modified (optional)
    has_state,            \* _FeedState.has_state
    entry_num,            \* download_queue's local entry_num
    overwrite,            \* download_queue's local overwrite
    attempt_count,        \* get_feed's attempt_count of the innermost frame
    temps,                \* get_feed's local temp of every suspended frame, outermost first
    cache,                \* the cache file: the sequence of the encoded subscriptions
    config,               \* the user's config file entry of the subscription
    server_lo,            \* oldest episode the server's feed still lists
    server_hi,            \* newest episode the server's feed lists
    downloads,            \* history: episode -> times it was passed to the downloader (2: more than once)
    update_result,        \* Config.update's local update_successful: what attempt_update returned
    first_contact,        \* history: this attempt_update found the watermark unset
    calls,                \* history: the transport calls of the get_feed that runs or has just run
    command,              \* history: the last command Config refused or died of (optional)
    subscriptions         \* Config.subscriptions by object: for each position, the first
                          \* position of the list that holds the same Subscription object

subVars  == <<name, current_url, provided_url, temp_url, download_backlog, backlog_limit>>
feedVars == <<entries, entries_state_dict, queue, latest_entry_number>>
valVars  == <<etag, last_modified, has_state>>
locVars  == <<entry_num, overwrite, attempt_count, temps>>
envVars  == <<config, server_lo, server_hi>>
vars == <<pc, cmd, subVars, feedVars, valVars, locVars, cache, envVars, downloads,
          update_result, first_contact, calls, command, subscriptions>>

---------------------------------------------------------------------------
\* Bounds of the model.
MaxEntries == 2      \* episodes the server ever publishes, all operations allowed
MaxGrow == 4         \* episodes the server ever publishes, update cycles only
MaxShrink == 3       \* episodes the server ever publishes, the whole backlog wanted
MaxRetry == 2        \* retries of one get_feed, every HTTP answer allowed
MaxFail == 3         \* episodes the server ever publishes, failing downloader
MaxMark == 2         \* episodes the server ever publishes, lists of two numbers marked

\* Program constant.
MAX_RECURSIVE_ATTEMPTS == 10

None == <<>>
Some(v) == <<v>>
Val(o) == o[1]

Episodes == 1..(MaxEntries + MaxGrow)

\* Python's seq[k]: a negative k counts from the end; IndexError outside.
PyIndexOk(seq, k) == -Len(seq) <= k /\ k < Len(seq)
PyIndex(seq, k) == IF k >= 0 THEN seq[k + 1] ELSE seq[Len(seq) + k + 1]

\* range(a, b) as a sequence.
PyRange(a, b) == [j \in 1..(IF b > a THEN b - a ELSE 0) |-> a + j - 1]

\* One more call of the downloader for episode e in the history.
Logged(d, e) == [d EXCEPT ![e] = IF @ < 2 THEN @ + 1 ELSE 2]

---------------------------------------------------------------------------
\* Subscription.encode_subscription with _FeedState.as_dict: what save_cache
\* writes for the subscription.  _temp_url and has_state are not written,
\* and as_dict writes None for last_modified whatever it is (line 642).
encode_subscription ==
    [name |-> name,
     current_url |-> current_url,
     provided_url |-> provided_url,
     download_backlog |-> download_backlog,
     backlog_limit |-> backlog_limit,
     entries |-> entries,
     entries_state_dict |-> entries_state_dict,
     queue |-> queue,
     latest_entry_number |-> latest_entry_number,
     last_modified |-> None,
     etag |-> etag]

\* Util.max_clamp(value, maximum): the value, at most the maximum.
max_clamp(value, maximum) == IF value < maximum THEN value ELSE maximum

\* _FeedState.load_rss_info on the feed the server returns: the entries are
\* rebuilt wholesale, newest first.
load_rss_info(lo, hi) == [j \in 1..(hi - lo + 1) |-> hi - j + 1]

\* attempt_update, line 163: the limits that mean "no limit".
IsUnlimited_NotZero(limit) == limit = None
IsUnlimited(limit) == limit = None \/ limit = Some(0)

\* attempt_update, line 171: the limits that are refused.
IsInvalid_Never(limit) == FALSE
IsInvalid(limit) == limit < 0

\* attempt_update, line 177: the limit after the clamp to the entry count.
ClampedLimit_Unclamped(limit, number_feeds) == limit
ClampedLimit(limit, number_feeds) == max_clamp(limit, number_feeds)

\* attempt_update, line 179: the watermark that leaves the newest entries new.
LimitedWatermark_Oldest(clamped, number_feeds) == clamped
LimitedWatermark(clamped, number_feeds) == number_feeds - clamped

\* attempt_update, line 182: the watermark when no backlog is wanted.
NoBacklogWatermark_Zero(number_feeds) == 0
NoBacklogWatermark(number_feeds) == number_feeds

\* attempt_update, the backlog block (lines 159-188): the watermark and the
\* backlog limit it leaves, and how it goes on: "False" and "True" are returned
\* at once, "continue" goes on to the comparison with the entry count.
BacklogPlan(latest, backlog, limit, number_feeds) ==
    IF latest # None
    THEN [latest |-> latest, limit |-> limit, ret |-> "continue"]
    ELSE IF ~backlog
    THEN [latest |-> Some(NoBacklogWatermark(number_feeds)), limit |-> limit,
          ret |-> "True"]
    ELSE IF IsUnlimited(limit)
    THEN [latest |-> Some(0), limit |-> limit, ret |-> "continue"]
    ELSE IF IsInvalid(Val(limit))
    THEN [latest |-> latest, limit |-> limit, ret |-> "False"]
    ELSE [latest |-> Some(LimitedWatermark(ClampedLimit(Val(limit), number_feeds),
                                           number_feeds)),
          limit |-> Some(ClampedLimit(Val(limit), number_feeds)),
          ret |-> "continue"]

\* attempt_update, lines 206-208: the jobs appended for the new entries.
NewJobs_SkipFirst(latest, number_feeds) ==
    [j \in DOMAIN PyRange(latest + 1, number_feeds) |->
        <<PyRange(latest + 1, number_feeds)[j] + 1, FALSE>>]
NewJobs(latest, number_feeds) ==
    [j \in DOMAIN PyRange(latest, number_feeds) |->
        <<PyRange(latest, number_feeds)[j] + 1, FALSE>>]

\* download_queue, lines 259-260: the watermark after an entry is finished.
RecordedWatermark(latest, num) == IF num > latest THEN num ELSE latest

\* download_queue, line 267: the job the interrupt handler puts back.
Requeued(num) == <<num, TRUE>>

\* download_queue, lines 226-228: the age (position in entries) of a job.
EntryAge(num_entries, num) == num_entries - (num + 1)

---------------------------------------------------------------------------
\* The HTTP answers of the transport (feedparser.parse).
\* etag and modified are the validators the answer carries, None when it
\* carries none.
Response(has_status, status, bozo, href) ==
    [has_status |-> has_status, status |-> status, bozo |-> bozo, href |-> href,
     etag |-> None, modified |-> None]
Validated(resp, e, m) == [resp EXCEPT !.etag = e, !.modified = m]

\* _feedparser_parse_with_options, lines 435-449: the validators passed to
\* feedparser.parse.
SentValidators ==
    IF ~has_state \/ (last_modified = None /\ etag = None)
    THEN [etag |-> None, modified |-> None]
    ELSE IF last_modified # None /\ etag # None
    THEN [etag |-> etag, modified |-> last_modified]
    ELSE IF last_modified # None
    THEN [etag |-> None, modified |-> last_modified]
    ELSE [etag |-> etag, modified |-> None]

\* _feedparser_parse_with_options, lines 451-453: a validator of the answer
\* replaces the stored one, a missing one leaves it.
StoredAfter_Dropped(received, stored) == received
StoredAfter(received, stored) == IF received # None THEN received ELSE stored

\* _feedparser_parse_with_options, lines 455-475: the classification.
ParseCode_NotModifiedParsed(resp) ==
    IF ~resp.has_status /\ resp.bozo THEN "FAILURE" ELSE "SUCCESS"
ParseCode(resp) ==
    IF ~resp.has_status /\ resp.bozo THEN "FAILURE"
    ELSE IF resp.has_status /\ resp.status = 304 THEN "UNNEEDED"
    ELSE "SUCCESS"

\* _handle_http_codes: the result and the URLs it leaves.
HandleHttpCodes_NotFoundClears(resp, cur, tmp) ==
    IF ~resp.has_status THEN [code |-> "SUCCESS", cur |-> cur, tmp |-> tmp]
    ELSE IF resp.status \in {401, 404, 410}
    THEN [code |-> "FAILURE", cur |-> None, tmp |-> tmp]
    ELSE IF resp.status \in {301, 308}
    THEN [code |-> "ATTEMPT_AGAIN", cur |-> Some(resp.href), tmp |-> tmp]
    ELSE IF resp.status \in {302, 303, 307}
    THEN [code |-> "ATTEMPT_AGAIN", cur |-> Some(resp.href), tmp |-> cur]
    ELSE IF resp.status # 200 THEN [code |-> "ATTEMPT_AGAIN", cur |-> cur, tmp |-> tmp]
    ELSE [code |-> "SUCCESS", cur |-> cur, tmp |-> tmp]
HandleHttpCodes(resp, cur, tmp) ==
    IF ~resp.has_status THEN [code |-> "SUCCESS", cur |-> cur, tmp |-> tmp]
    ELSE IF resp.status = 404 THEN [code |-> "FAILURE", cur |-> cur, tmp |-> tmp]
    ELSE IF resp.status \in {401, 410} THEN [code |-> "FAILURE", cur |-> None, tmp |-> tmp]
    ELSE IF resp.status \in {301, 308}
    THEN [code |-> "ATTEMPT_AGAIN", cur |-> Some(resp.href), tmp |-> tmp]
    ELSE IF resp.status \in {302, 303, 307}
    THEN [code |-> "ATTEMPT_AGAIN", cur |-> Some(resp.href), tmp |-> cur]
    ELSE IF resp.status # 200 THEN [code |-> "ATTEMPT_AGAIN", cur |-> cur, tmp |-> tmp]
    ELSE [code |-> "SUCCESS", cur |-> cur, tmp |-> tmp]

\* get_feed's _helper up to the recursive call: lines 387-411.
Helper_Unbounded(resp) ==
    IF current_url = None
    THEN [code |-> "FAILURE", cur |-> current_url, tmp |-> temp_url]
    ELSE IF ParseCode(resp) # "SUCCESS"
    THEN [code |-> ParseCode(resp), cur |-> current_url, tmp |-> temp_url]
    ELSE HandleHttpCodes(resp, current_url, temp_url)
Helper(resp) ==
    IF attempt_count > MAX_RECURSIVE_ATTEMPTS \/ current_url = None
    THEN [code |-> "FAILURE", cur |-> current_url, tmp |-> temp_url]
    ELSE IF ParseCode(resp) # "SUCCESS"
    THEN [code |-> ParseCode(resp), cur |-> current_url, tmp |-> temp_url]
    ELSE HandleHttpCodes(resp, current_url, temp_url)

\* get_feed, lines 414-419, as the suspended frames return, innermost first:
\* a frame whose temp is set puts it back into _current_url.
RECURSIVE Unwind(_, _)
Unwind(frames, cur) ==
    IF frames = <<>> THEN cur
    ELSE Unwind(SubSeq(frames, 1, Len(frames) - 1),
                IF frames[Len(frames)] # None THEN frames[Len(frames)] ELSE cur)

\* _handle_http_codes and get_feed never assign _provided_url.
ProvidedUrlAfter_Permanent(resp, provided) ==
    IF resp.has_status /\ resp.status \in {301, 308} THEN resp.href ELSE provided
ProvidedUrlAfter(resp, provided) == provided

\* _helper reaches feedparser.parse (lines 387-399): neither too many attempts
\* nor an empty URL.
TransportCalled == attempt_count <= MAX_RECURSIVE_ATTEMPTS /\ current_url # None

\* History of the transport calls of one get_feed: their number, the URL that
\* was current before the first temporary redirect, the last two answers, the
\* validators passed to the last call and those that were stored then.
NoValidators == [etag |-> None, modified |-> None]
NoCalls == [n |-> 0, first_temp |-> None, prev |-> None, last |-> None,
            sent |-> NoValidators, stored |-> NoValidators]
IsTemporary(resp) == resp.has_status /\ resp.status \in {302, 303, 307}
IsPermanent(resp) == resp.has_status /\ resp.status \in {301, 308}
Called(c, resp, cur) ==
    [n |-> c.n + 1,
     first_temp |-> IF c.first_temp = None /\ IsTemporary(resp) THEN cur ELSE c.first_temp,
     prev |-> c.last,
     last |-> Some(resp),
     sent |-> SentValidators,
     stored |-> [etag |-> etag, modified |-> last_modified]]

---------------------------------------------------------------------------
\* A dict is the set of its <<key, value>> pairs.
DictSet(d, k, v) == {p \in d : p[1] # k} \cup {<<k, v>>}

\* Subscription.mark / unmark (called by Config.mark, Config.unmark and
\* Config.enqueue): the flag of every requested number in 1..len(entries) is
\* set to the value, every other number is ignored.
RECURSIVE SetMarks_Unchecked(_, _, _, _)
SetMarks_Unchecked(d, nums, value, num_entries) ==
    IF nums = <<>> THEN d
    ELSE SetMarks_Unchecked(DictSet(d, Head(nums) - 1, value),
                            Tail(nums), value, num_entries)
RECURSIVE SetMarks(_, _, _, _)
SetMarks(d, nums, value, num_entries) ==
    IF nums = <<>> THEN d
    ELSE SetMarks(IF Head(nums) > 0 /\ Head(nums) <= num_entries
                  THEN DictSet(d, Head(nums) - 1, value) ELSE d,
                  Tail(nums), value, num_entries)

\* enqueue, line 274: "num not in self.feed_state.queue" compares a number
\* with the jobs of the queue, which are pairs: no job ever equals a number.
PyEqNumJob(num, job) == FALSE
PyInQueue(num, q) == \E j \in DOMAIN q : PyEqNumJob(num, q[j])

\* enqueue, lines 271-275: the jobs accepted.
RECURSIVE ActualNums(_, _, _)
ActualNums(nums, num_entries, q) ==
    IF nums = <<>> THEN <<>>
    ELSE (IF Head(nums) > 0 /\ Head(nums) <= num_entries /\ ~PyInQueue(Head(nums), q)
          THEN <<(<<Head(nums), TRUE>>)>> ELSE <<>>)
         \o ActualNums(Tail(nums), num_entries, q)

---------------------------------------------------------------------------
\* Inputs.
Limits(n) == {None} \cup {Some(k) : k \in (-1)..(n + 1)}
Nums == 0..(MaxEntries + 1)
NumLists == {<<a>> : a \in Nums}
QueueCap == MaxEntries + 1

OK200 == Response(TRUE, 200, FALSE, "u1")
NotModified == Response(TRUE, 304, FALSE, "u1")
NotFound == Response(TRUE, 404, FALSE, "u1")
Responses == {OK200, NotModified, NotFound}

URLS == {"u1", "u2"}
Redirects == {301, 308, 302, 303, 307}
ServerError == Response(TRUE, 500, FALSE, "u1")
Bozo == Response(FALSE, 0, TRUE, "u1")
UrlResponses ==
    {Response(TRUE, status, FALSE, href) : status \in Redirects, href \in URLS}
    \cup {Response(TRUE, status, FALSE, "u1") : status \in {200, 304, 401, 404, 410, 500}}
    \cup {Bozo}

InitWith(limits) ==
    /\ pc = "idle"
    /\ cmd = "none"
    /\ config \in {[name |-> "n1", url |-> "u1", download_backlog |-> b,
                    backlog_limit |-> l, settings_backlog_limit |-> l] :
                       b \in BOOLEAN, l \in limits}
    /\ name = config.name
    /\ provided_url = config.url
    /\ current_url = Some(config.url)
    /\ temp_url = None
    /\ download_backlog = config.download_backlog
    /\ backlog_limit = config.backlog_limit
    /\ entries = <<>>
    /\ entries_state_dict = {}
    /\ queue = <<>>
    /\ latest_entry_number = None
    /\ etag = None
    /\ last_modified = None
    /\ has_state = FALSE
    /\ entry_num = 0
    /\ overwrite = FALSE
    /\ attempt_count = 0
    /\ temps = <<>>
    /\ cache = <<>>
    /\ server_lo = 1
    /\ server_hi = 0
    /\ downloads = [e \in Episodes |-> 0]
    /\ update_result = "none"
    /\ first_contact = FALSE
    /\ calls = NoCalls
    /\ command = None
    /\ subscriptions = <<1>>

Init == InitWith(Limits(MaxEntries))

\* attempt_update or download_queue returns to the command of Config that
\* called it; their locals are gone.
Return ==
    /\ pc' = "saving"
    /\ entry_num' = 0
    /\ overwrite' = FALSE
    /\ attempt_count' = 0
    /\ temps' = <<>>
    /\ UNCHANGED <<cmd, cache>>

\* Config.update, lines 146-152, and Config.download_queue, lines 264-265:
\* the command saves the cache and is over.
SaveCache ==
    /\ pc = "saving"
    /\ cache' = <<encode_subscription>>
    /\ pc' = "idle"
    /\ cmd' = "none"
    /\ update_result' = "none"
    /\ first_contact' = FALSE
    /\ calls' = NoCalls
    /\ UNCHANGED <<subVars, feedVars, valVars, locVars, envVars, downloads, command, subscriptions>>

\* Config.enqueue, Config.mark and Config.unmark end with save_cache.
SaveNow ==
    /\ cache' = <<encode_subscription'>>
    /\ UNCHANGED <<pc, cmd, locVars>>

\* Config.update calls attempt_update, which calls get_feed.
UpdateStart ==
    /\ pc = "idle"
    /\ pc' = "feed"
    /\ cmd' = "update"
    /\ attempt_count' = 0
    /\ temps' = <<>>
    /\ UNCHANGED <<subVars, feedVars, entry_num, overwrite, cache, envVars,
                   downloads, update_result, first_contact, calls,
                   command, subscriptions, valVars>>

\* One run of get_feed's _helper with the transport answering resp, the
\* server's feed being the episodes lo..hi by then (the publisher has added
\* episodes at the newest end and dropped some at the oldest).  On
\* ATTEMPT_AGAIN the frame is suspended and get_feed runs again; on any other
\* result the suspended frames return and attempt_update goes on (lines
\* 154-211) up to the call of download_queue.
GetFeed(resp, lo, hi) ==
    /\ pc = "feed"
    /\ server_lo <= lo /\ lo <= hi + 1
    /\ server_hi <= hi
    /\ (Helper(resp).code # "SUCCESS") => (lo = server_lo /\ hi = server_hi)
    /\ server_lo' = lo
    /\ server_hi' = hi
    /\ UNCHANGED <<config, name, has_state, command, subscriptions>>
    /\ provided_url' = ProvidedUrlAfter(resp, provided_url)
    /\ etag' = IF TransportCalled THEN StoredAfter(resp.etag, etag) ELSE etag
    /\ last_modified' = IF TransportCalled
                        THEN StoredAfter(resp.modified, last_modified)
                        ELSE last_modified
    /\ calls' = IF TransportCalled THEN Called(calls, resp, current_url) ELSE calls
    /\ LET r == Helper(resp) IN
       IF r.code = "ATTEMPT_AGAIN"
       THEN /\ current_url' = r.cur
            /\ temp_url' = r.tmp
            /\ temps' = Append(temps, r.tmp)
            /\ attempt_count' = attempt_count + 1
            /\ UNCHANGED <<pc, cmd, download_backlog, backlog_limit,
                           feedVars, entry_num, overwrite, cache,
                           downloads, update_result, first_contact>>
       ELSE LET ents == IF r.code = "SUCCESS"
                        THEN load_rss_info(lo, hi) ELSE entries
                plan == BacklogPlan(latest_entry_number, download_backlog,
                                    backlog_limit, Len(ents))
            IN  /\ current_url' = Unwind(temps, r.cur)
                /\ temp_url' = r.tmp
                /\ entries' = ents
                /\ UNCHANGED <<download_backlog, entries_state_dict, downloads>>
                /\ IF r.code # "SUCCESS"
                   THEN /\ update_result' = r.code
                        /\ UNCHANGED <<backlog_limit, latest_entry_number, queue,
                                       first_contact>>
                        /\ Return
                   ELSE /\ first_contact' = (latest_entry_number = None)
                        /\ backlog_limit' = plan.limit
                        /\ latest_entry_number' = plan.latest
                        /\ IF plan.ret # "continue"
                           THEN /\ update_result' = plan.ret
                                /\ UNCHANGED queue
                                /\ Return
                           ELSE IF Val(plan.latest) >= Len(ents)
                           THEN /\ update_result' = "True"
                                /\ UNCHANGED queue
                                /\ Return
                           ELSE /\ queue' = queue \o NewJobs(Val(plan.latest), Len(ents))
                                /\ pc' = "drain"
                                /\ attempt_count' = 0
                                /\ temps' = <<>>
                                /\ UNCHANGED <<cmd, entry_num, overwrite, cache,
                                               update_result>>

\* download_queue, lines 224-230: the loop test, the pop and the lookup of the
\* entry.  An index outside entries raises IndexError, which nothing catches.
Pop ==
    /\ pc = "drain"
    /\ IF queue = <<>>
       THEN /\ update_result' = IF cmd = "update" THEN "True" ELSE update_result
            /\ UNCHANGED <<subVars, feedVars, envVars, downloads, first_contact, calls,
                   command, subscriptions, valVars>>
            /\ Return
       ELSE /\ queue' = Tail(queue)
            /\ entry_num' = Head(queue)[1] - 1
            /\ overwrite' = Head(queue)[2]
            /\ pc' = IF PyIndexOk(entries, EntryAge(Len(entries), entry_num'))
                     THEN "dl" ELSE "crashed"
            /\ UNCHANGED <<cmd, subVars, entries, entries_state_dict,
                           latest_entry_number, attempt_count, temps, cache,
                           envVars, downloads, update_result, first_contact, calls,
                   command, subscriptions, valVars>>

\* The episode of the job in hand.
Entry == PyIndex(entries, EntryAge(Len(entries), entry_num))

\* download_queue, lines 248-264: the enclosures go to the downloader, then
\* the watermark and the flag are recorded.  Comparing the number with an
\* unset watermark raises TypeError, which nothing catches.
Finish ==
    /\ pc = "dl"
    /\ downloads' = Logged(downloads, Entry)
    /\ IF latest_entry_number = None
       THEN /\ pc' = "crashed"
            /\ UNCHANGED <<latest_entry_number, entries_state_dict>>
       ELSE /\ pc' = "drain"
            /\ latest_entry_number' =
                   Some(RecordedWatermark(Val(latest_entry_number), entry_num))
            /\ entries_state_dict' = DictSet(entries_state_dict, entry_num, TRUE)
    /\ UNCHANGED <<cmd, subVars, entries, queue, locVars, cache, envVars,
                   update_result, first_contact, calls,
                   command, subscriptions, valVars>>

\* KeyboardInterrupt while the downloader runs (lines 266-267): the handler
\* puts a job back at the front and download_queue returns to its caller,
\* which saves the cache.  called: the downloader had been given an enclosure.
Interrupt ==
    /\ pc = "dl"
    /\ \E called \in BOOLEAN :
          downloads' = IF called THEN Logged(downloads, Entry) ELSE downloads
    /\ queue' = <<Requeued(entry_num)>> \o queue
    /\ update_result' = IF cmd = "update" THEN "True" ELSE update_result
    /\ UNCHANGED <<subVars, entries, entries_state_dict, latest_entry_number,
                   envVars, first_contact, calls,
                   command, subscriptions, valVars>>
    /\ Return

\* download_queue, line 257: the downloader raises an error that is not a
\* KeyboardInterrupt.  The try statement (lines 223-267) has no handler for
\* it, and neither have attempt_update and Config.update (lines 142-152): the
\* exception leaves the loop over the subscriptions before save_cache.
DownloadError ==
    /\ pc = "dl"
    /\ pc' = "crashed"
    /\ downloads' = Logged(downloads, Entry)
    /\ UNCHANGED <<cmd, subVars, feedVars, valVars, locVars, cache, envVars,
                   update_result, first_contact, calls, command, subscriptions>>

\* Config.download_queue.
DownloadQueue ==
    /\ pc = "idle"
    /\ pc' = "drain"
    /\ cmd' = "download_queue"
    /\ UNCHANGED <<subVars, feedVars, locVars, cache, envVars, downloads,
                   update_result, first_contact, calls,
                   command, subscriptions, valVars>>

\* Config.enqueue: unmark, enqueue, save_cache.
Enqueue(nums) ==
    /\ pc = "idle"
    /\ entries_state_dict' = SetMarks(entries_state_dict, nums, FALSE, Len(entries))
    /\ queue' = queue \o ActualNums(nums, Len(entries), queue)
    /\ UNCHANGED <<subVars, entries, latest_entry_number, envVars, downloads,
                   update_result, first_contact, calls,
                   command, subscriptions, valVars>>
    /\ SaveNow

\* Config.mark and Config.unmark: the flags, then save_cache.
Mark(nums, value) ==
    /\ pc = "idle"
    /\ entries_state_dict' = SetMarks(entries_state_dict, nums, value, Len(entries))
    /\ UNCHANGED <<subVars, entries, queue, latest_entry_number, envVars,
                   downloads, update_result, first_contact, calls,
                   command, subscriptions, valVars>>
    /\ SaveNow

\* The commands of Config that take the index of a subscription, and those
\* of them that take a list of numbers as well.
IndexCommands ==
    {"details", "enqueue", "mark", "unmark", "download_queue", "summarize_sub"}
ListCommands == {"enqueue", "mark", "unmark"}

\* len(self.subscriptions): the list is empty until load_state has run
\* (config.py:42), then it holds the one subscription of the user's config.
NumSubscriptions == IF pc = "start" THEN 0 ELSE 1

\* Config._validate_command, lines 282-284.
ValidateCommand(sub_index, num_subs) ==
    IF sub_index < 0 \/ sub_index > num_subs THEN "BadCommandError" ELSE "ok"

\* Config._validate_list_command, lines 276-280; nums is optional, None when
\* the command was given no list.
ValidateListCommand(sub_index, nums, num_subs) ==
    IF nums = None \/ Len(Val(nums)) <= 0 THEN "BadCommandError"
    ELSE ValidateCommand(sub_index, num_subs)

Validate(kind, sub_index, nums, num_subs) ==
    IF kind \in ListCommands THEN ValidateListCommand(sub_index, nums, num_subs)
    ELSE ValidateCommand(sub_index, num_subs)

\* An index-taking command that does not reach its subscription.  Either the
\* validation refuses it with BadCommandError and nothing else happens, or the
\* validation lets the index through, _ensure_loaded finds the state loaded
\* and self.subscriptions[sub_index] raises IndexError, which the command
\* does not catch.  (Before load_state has run the validation lets only the
\* index 0 through, which is the index of the subscription once loaded.)
BadCommand(kind, sub_index, nums) ==
    /\ pc \in {"start", "idle"}
    /\ \/ /\ Validate(kind, sub_index, nums, NumSubscriptions) = "BadCommandError"
          /\ command' = Some([kind |-> kind, sub_index |-> sub_index, nums |-> nums,
                              error |-> "BadCommandError"])
          /\ pc' = pc
       \/ /\ Validate(kind, sub_index, nums, NumSubscriptions) = "ok"
          /\ pc = "idle"
          /\ ~PyIndexOk(<<name>>, sub_index)
          /\ command' = Some([kind |-> kind, sub_index |-> sub_index, nums |-> nums,
                              error |-> "IndexError"])
          /\ pc' = "crashed"
    /\ UNCHANGED <<cmd, subVars, feedVars, valVars, locVars, cache, envVars,
                   downloads, update_result, first_contact, calls, subscriptions>>

\* Subscription.decode_subscription, lines 84-91: a record that lacks the
\* name or one of the URLs is not decoded, None is returned for it.
decode_subscription(r) ==
    IF {"name", "current_url", "provided_url"} \subseteq DOMAIN r THEN Some(r) ELSE None

\* Config._load_cache_settings, lines 300-311: decode_subscription raises
\* nothing, so the except clause never runs; reading the name of the None
\* returned for such a record raises AttributeError, which neither
\* _load_cache_settings nor load_state catches.
LoadAborts(c) == \E i \in DOMAIN c : decode_subscription(c[i]) = None

\* Config._load_cache_settings, lines 300-311: the lookup maps built from the
\* records of the cache in their order, a later record replacing an earlier
\* one under the same key.  by_url is keyed by the originally provided URL.
ByName(c, n) ==
    IF \E i \in DOMAIN c : c[i].name = n
    THEN Some(c[CHOOSE i \in DOMAIN c :
                   c[i].name = n /\ \A j \in DOMAIN c : c[j].name = n => j <= i])
    ELSE None
ByUrl(c, u) ==
    IF \E i \in DOMAIN c : c[i].provided_url = u
    THEN Some(c[CHOOSE i \in DOMAIN c :
                   c[i].provided_url = u
                   /\ \A j \in DOMAIN c : c[j].provided_url = u => j <= i])
    ELSE None

\* Subscription.default_missing_fields, lines 321-328: a field that is None
\* takes the value of the global setting.
default_missing_fields(value, setting) == IF value = None THEN setting ELSE value

\* Config.load_state, lines 107-113: the cached subscription a user
\* subscription is matched with, by name first, then by URL.
Matched_UrlFirst(c, n, u) == IF ByUrl(c, u) # None THEN ByUrl(c, u) ELSE ByName(c, n)
Matched_NameOnly(c, n, u) == ByName(c, n)
Matched(c, n, u) == IF ByName(c, n) # None THEN ByName(c, n) ELSE ByUrl(c, u)

\* Config.load_state, lines 93-123, by object.  _load_user_settings builds
\* one new Subscription per entry of the config, _load_cache_settings one per
\* record of the cache; both maps hold the object of the record, the last
\* record under a key.  The loop replaces the user's object by the map's
\* object when the name or else the URL is a key, and appends it.  The keys
\* of the maps are not changed by the update of an object.
UserObject(j) == [cached |-> FALSE, at |-> j]
CachedObject(i) == [cached |-> TRUE, at |-> i]
SlotByName(c, n) ==
    IF \E i \in DOMAIN c : c[i].name = n
    THEN CHOOSE i \in DOMAIN c : c[i].name = n /\ \A j \in DOMAIN c : c[j].name = n => j <= i
    ELSE 0
SlotByUrl(c, u) ==
    IF \E i \in DOMAIN c : c[i].provided_url = u
    THEN CHOOSE i \in DOMAIN c :
             c[i].provided_url = u /\ \A j \in DOMAIN c : c[j].provided_url = u => j <= i
    ELSE 0
MatchedSlot(c, n, u) == IF SlotByName(c, n) # 0 THEN SlotByName(c, n) ELSE SlotByUrl(c, u)
load_state(users, c) ==
    [j \in DOMAIN users |->
        IF MatchedSlot(c, users[j].name, users[j].url) # 0
        THEN CachedObject(MatchedSlot(c, users[j].name, users[j].url))
        ELSE UserObject(j)]

\* The positions of a list of objects by the first position that holds the
\* same object, and the last position that holds the object of position i
\* (the entry whose name and URL the object has after the loop).
Holders(subs) ==
    [i \in DOMAIN subs |-> CHOOSE j \in DOMAIN subs :
        subs[j] = subs[i] /\ \A k \in DOMAIN subs : subs[k] = subs[i] => j <= k]
LastHolder(subs, i) ==
    CHOOSE j \in DOMAIN subs :
        subs[j] = subs[i] /\ \A k \in DOMAIN subs : subs[k] = subs[i] => k <= j

\* The process ends (or has died of an exception) and is started again:
\* Config.load_state reads the config and the cache.  The cached subscription
\* matched with the user's is taken as it was saved, download_backlog and
\* backlog_limit included, and given the configured name and URL (update,
\* update_url); without a match the subscription is the one built from the
\* config.  Then default_missing_fields runs.  When the cache cannot be
\* loaded, load_state is left by the exception with the subscriptions as
\* _load_user_settings parsed them.  config.backlog_limit is
\* what parse_from_user_yaml gives the subscription, the user's value or the
\* global setting; a cached download_backlog is a boolean, as it was encoded.
LoadState(others) ==
    LET users == <<[name |-> config.name, url |-> config.url]>> \o others
        subs == IF LoadAborts(cache) THEN [j \in DOMAIN users |-> UserObject(j)]
                ELSE load_state(users, cache)
        last == users[LastHolder(subs, 1)]
    IN
    /\ pc \in {"start", "idle", "crashed"}
    /\ cmd' = "none"
    /\ name' = last.name
    /\ provided_url' = last.url
    /\ current_url' = Some(last.url)
    /\ temp_url' = None
    /\ last_modified' = None
    /\ subscriptions' = Holders(subs)
    /\ IF LoadAborts(cache)
       THEN /\ pc' = "crashed"
            /\ download_backlog' = config.download_backlog
            /\ backlog_limit' = config.backlog_limit
            /\ entries' = <<>>
            /\ entries_state_dict' = {}
            /\ queue' = <<>>
            /\ latest_entry_number' = None
            /\ etag' = None
            /\ has_state' = FALSE
       ELSE
       LET m == Matched(cache, config.name, config.url) IN
       /\ pc' = "idle"
       /\ IF m = None
          THEN /\ download_backlog' = config.download_backlog
               /\ backlog_limit' = default_missing_fields(config.backlog_limit,
                                                          config.settings_backlog_limit)
               /\ entries' = <<>>
               /\ entries_state_dict' = {}
               /\ queue' = <<>>
               /\ latest_entry_number' = None
               /\ etag' = None
               /\ has_state' = FALSE
          ELSE /\ download_backlog' = Val(m).download_backlog
               /\ backlog_limit' = default_missing_fields(Val(m).backlog_limit,
                                                          config.settings_backlog_limit)
               /\ entries' = Val(m).entries
               /\ entries_state_dict' = Val(m).entries_state_dict
               /\ queue' = Val(m).queue
               /\ latest_entry_number' = Val(m).latest_entry_number
               /\ etag' = Val(m).etag
               /\ has_state' = TRUE
    /\ entry_num' = 0
    /\ overwrite' = FALSE
    /\ attempt_count' = 0
    /\ temps' = <<>>
    /\ update_result' = "none"
    /\ first_contact' = FALSE
    /\ calls' = NoCalls
    /\ UNCHANGED <<cache, envVars, downloads, command>>

\* The load of a config that lists the one subscription.
Restart == LoadState(<<>>)

\* All operations, the feed of at most MaxEntries episodes changing in any
\* way between two fetches, the queue of at most QueueCap jobs.
Next ==
    \/ UpdateStart
    \/ \E resp \in Responses, lo \in 1..(MaxEntries + 1), hi \in 0..MaxEntries :
          GetFeed(resp, lo, hi) /\ Len(queue') <= QueueCap
    \/ Pop
    \/ Finish
    \/ Interrupt
    \/ SaveCache
    \/ DownloadQueue
    \/ \E nums \in NumLists : Enqueue(nums) /\ Len(queue') <= QueueCap
    \/ \E nums \in NumLists, value \in BOOLEAN : Mark(nums, value)
    \/ Restart

Spec == Init /\ [][Next]_vars

\* Update cycles only, every fetch successful, on a feed that only grows at
\* its newest end: no interrupt, no manual enqueue, no mark, no restart.
InitGrow == InitWith(Limits(MaxGrow))

NextGrow ==
    \/ UpdateStart
    \/ \E hi \in 0..MaxGrow : GetFeed(OK200, 1, hi)
    \/ Pop
    \/ Finish
    \/ SaveCache

SpecGrow == InitGrow /\ [][NextGrow]_vars


\* Every operation but mark, every fetch successful, on a feed of at most
\* MaxShrink episodes that grows at its newest end and loses episodes at its
\* oldest, the whole backlog wanted.
InitShrink ==
    /\ InitWith({None})
    /\ config.download_backlog

NextShrink ==
    \/ UpdateStart
    \/ \E lo \in 1..(MaxShrink + 1), hi \in 0..MaxShrink :
          GetFeed(OK200, lo, hi) /\ Len(queue') <= MaxShrink
    \/ Pop
    \/ Finish
    \/ Interrupt
    \/ SaveCache
    \/ DownloadQueue
    \/ \E num \in 1..MaxShrink : Enqueue(<<num>>) /\ Len(queue') <= MaxShrink
    \/ Restart

SpecShrink == InitShrink /\ [][NextShrink]_vars

\* The feed history of a subscription, in memory and in a record of the cache.
History == <<entries, entries_state_dict, queue, latest_entry_number>>
HistoryOf(r) == <<r.entries, r.entries_state_dict, r.queue, r.latest_entry_number>>
NoHistory == <<(<<>>), {}, (<<>>), None>>

\* Records of the cache as earlier runs saved them: a subscription that
\* marked its one entry seen and had no backlog limit, and one that has two
\* entries, a job waiting and the backlog limit 2.
Cached(n, u, h) ==
    [name |-> n, current_url |-> Some(u), provided_url |-> u,
     download_backlog |-> FALSE,
     backlog_limit |-> IF h = 1 THEN None ELSE Some(2),
     entries |-> IF h = 1 THEN <<1>> ELSE <<2, 1>>,
     entries_state_dict |-> IF h = 1 THEN {} ELSE {<<0, FALSE>>},
     queue |-> IF h = 1 THEN <<>> ELSE <<(<<1, TRUE>>)>>,
     latest_entry_number |-> Some(h),
     last_modified |-> None,
     etag |-> None]
Names == {"n1", "n2"}
CachedSubs == {Cached(n, u, h) : n \in Names, u \in URLS, h \in 1..2}
Caches == {<<>>} \cup {<<a>> : a \in CachedSubs}
          \cup {<<a, b>> : a \in CachedSubs, b \in CachedSubs}

\* A process is started on any such cache with any name, URL,
\* download_backlog and backlog limit in the user's config, the global
\* backlog limit being the 1 of Config.__init__; Config.load_state has not
\* run yet.
InitLoadWith(caches) ==
    /\ pc = "start"
    /\ cmd = "none"
    /\ config \in [name : Names, url : URLS,
                   download_backlog : BOOLEAN, backlog_limit : {Some(1), Some(2)},
                   settings_backlog_limit : {Some(1)}]
    /\ cache \in caches
    /\ name = config.name
    /\ provided_url = config.url
    /\ current_url = Some(config.url)
    /\ temp_url = None
    /\ download_backlog = config.download_backlog
    /\ backlog_limit = config.backlog_limit
    /\ entries = <<>>
    /\ entries_state_dict = {}
    /\ queue = <<>>
    /\ latest_entry_number = None
    /\ etag = None
    /\ last_modified = None
    /\ has_state = FALSE
    /\ entry_num = 0
    /\ overwrite = FALSE
    /\ attempt_count = 0
    /\ temps = <<>>
    /\ server_lo = 1
    /\ server_hi = 0
    /\ downloads = [e \in Episodes |-> 0]
    /\ update_result = "none"
    /\ first_contact = FALSE
    /\ calls = NoCalls
    /\ command = None
    /\ subscriptions = <<>>

InitLoad == InitLoadWith(Caches)

NextLoad == Restart

SpecLoad == InitLoad /\ [][NextLoad]_vars

\* A process is started on any such cache with a config that lists the
\* subscription and at most one more, of any name and URL.
OtherUsers == {<<>>} \cup {<<[name |-> n, url |-> u]>> : n \in Names, u \in URLS}

NextShared == \E others \in OtherUsers : LoadState(others)

SpecShared == InitLoad /\ [][NextShared]_vars

\* A record of the cache that lacks the key k.
Lacking(r, k) == [f \in DOMAIN r \ {k} |-> r[f]]
MalformedSubs ==
    {Lacking(r, k) : r \in CachedSubs, k \in {"name", "current_url", "provided_url"}}

\* Caches of one or two records of which one at least lacks a key.
MalformedCaches ==
    {<<a>> : a \in MalformedSubs}
    \cup {<<a, b>> : a \in MalformedSubs, b \in CachedSubs \cup MalformedSubs}
    \cup {<<a, b>> : a \in CachedSubs, b \in MalformedSubs}

\* A process is started on such a cache.
InitDecode == InitLoadWith(MalformedCaches)

NextDecode == Restart

SpecDecode == InitDecode /\ [][NextDecode]_vars

\* Update cycles on an empty feed, the transport answering 200, 500 or a
\* redirect to u2, temporary or permanent, get_feed retrying as often as the
\* code lets it.  The transport answers every call, so that a get_feed that
\* has been called goes on.
ChainResponses ==
    {OK200, ServerError, Response(TRUE, 302, FALSE, "u2"), Response(TRUE, 301, FALSE, "u2")}

InitChain ==
    /\ InitWith({None})
    /\ config.download_backlog

GetFeedChain == \E resp \in ChainResponses : GetFeed(resp, 1, 0)

NextChain ==
    \/ UpdateStart
    \/ GetFeedChain
    \/ SaveCache

SpecChain == InitChain /\ [][NextChain]_vars /\ WF_vars(GetFeedChain)

\* Update cycles on an empty feed, answered 200 or 304 with or without an
\* ETag and a Last-Modified header, by a process that may be started again
\* on the cache it saved.
Etags == {None, Some("e1"), Some("e2")}
Modifieds == {None, Some("m1")}
EtagResponses ==
    {Validated(resp, e, m) : resp \in {OK200, NotModified}, e \in Etags, m \in Modifieds}

InitEtag ==
    /\ InitWith({None})
    /\ config.download_backlog

NextEtag ==
    \/ UpdateStart
    \/ \E resp \in EtagResponses : GetFeed(resp, 1, 0)
    \/ SaveCache
    \/ Restart

SpecEtag == InitEtag /\ [][NextEtag]_vars

\* Update cycles on an empty feed, the transport answering 200, 304, 404,
\* 500 or with no status at all, each answer with or without an ETag and a
\* Last-Modified header, get_feed retrying at most MaxRetry times.
RefreshResponses ==
    {Validated(resp, e, m) : resp \in {OK200, NotModified, NotFound, ServerError, Bozo},
                             e \in {None, Some("e1")}, m \in Modifieds}

InitRefresh ==
    /\ InitWith({None})
    /\ config.download_backlog

NextRefresh ==
    \/ UpdateStart
    \/ \E resp \in RefreshResponses : GetFeed(resp, 1, 0) /\ Len(temps') <= MaxRetry
    \/ SaveCache

SpecRefresh == InitRefresh /\ [][NextRefresh]_vars

\* Update cycles on a feed that only grows, fetches that succeed or are
\* answered 404, any backlog limit from -1 on, and a downloader that may
\* raise an error.
InitFail == InitWith(Limits(MaxFail))

NextFail ==
    \/ UpdateStart
    \/ \E resp \in {OK200, NotFound}, hi \in 0..MaxFail : GetFeed(resp, 1, hi)
    \/ Pop
    \/ Finish
    \/ DownloadError
    \/ SaveCache

SpecFail == InitFail /\ [][NextFail]_vars

\* Update cycles on a feed that only grows, drains that may be interrupted,
\* and mark and unmark with lists of one or two numbers from -1 to one more
\* than the feed ever has, the same number twice included.
MarkNums == (-1)..(MaxMark + 1)
MarkLists == {<<a>> : a \in MarkNums} \cup {<<a, b>> : a \in MarkNums, b \in MarkNums}

InitMark ==
    /\ InitWith({None})
    /\ ~config.download_backlog

NextMark ==
    \/ UpdateStart
    \/ \E hi \in 0..MaxMark : GetFeed(OK200, 1, hi)
    \/ Pop
    \/ Finish
    \/ Interrupt
    \/ SaveCache
    \/ \E nums \in MarkLists, value \in BOOLEAN : Mark(nums, value)

SpecMark == InitMark /\ [][NextMark]_vars

\* The commands that take an index, with any index from -1 to 2 and no list,
\* an empty list or a list of one number, on a process that is started on a
\* cache holding the subscription with two entries.
SubIndexes == (-1)..2
OptNumLists == {None, Some(<<>>), Some(<<1>>), Some(<<2>>)}

InitCmd ==
    /\ InitLoadWith({<<Cached("n1", "u1", 2)>>})
    /\ config.name = "n1" /\ config.url = "u1"
    /\ ~config.download_backlog /\ config.backlog_limit = Some(2)

NextCmd ==
    \/ Restart
    \/ \E kind \in IndexCommands, sub_index \in SubIndexes, nums \in OptNumLists :
          BadCommand(kind, sub_index, nums)
    \/ \E num \in 1..2 : Enqueue(<<num>>) /\ Len(queue') <= 2
    \/ \E num \in 1..2, value \in BOOLEAN : Mark(<<num>>, value)
    \/ DownloadQueue
    \/ Pop
    \/ Finish
    \/ SaveCache

SpecCmd == InitCmd /\ [][NextCmd]_vars

\* Update cycles of one process on an empty feed, the transport giving any
\* answer, get_feed retrying at most MaxRetry times.
InitUrl ==
    /\ InitWith({None})
    /\ config.download_backlog

NextUrl ==
    \/ UpdateStart
    \/ \E resp \in UrlResponses : GetFeed(resp, 1, 0) /\ Len(temps') <= MaxRetry
    \/ SaveCache

SpecUrl == InitUrl /\ [][NextUrl]_vars

\* The update cycles of SpecUrl with the process ended and started again
\* between them: load_state reconciles the saved cache with the same config.
NextGone ==
    \/ NextUrl
    \/ Restart

SpecGone == InitUrl /\ [][NextGone]_vars

\* Update cycles on a feed of at most one episode, the transport answering
\* 200 or 500, get_feed retrying as often as the code lets it.
InitRetry == InitWith(Limits(1))

NextRetry ==
    \/ UpdateStart
    \/ \E resp \in {OK200, ServerError}, hi \in 0..1 : GetFeed(resp, 1, hi)
    \/ Pop
    \/ Finish
    \/ SaveCache

SpecRetry == InitRetry /\ [][NextRetry]_vars

---------------------------------------------------------------------------
\* Vocabulary of the properties.

\* The step in which get_feed returns SUCCESS and attempt_update plans.
Fetched ==
    /\ pc = "feed"
    /\ pc' # "feed"
    /\ update_result' \notin {"FAILURE", "UNNEEDED"}

\* The step in which download_queue finishes the job in hand.
Finished == pc = "dl" /\ pc' = "drain"

\* The step in which the interrupt handler runs.
Interrupted == pc = "dl" /\ pc' = "saving"

\* The jobs (a, false), (a+1, false), ..., (b, false).
JobsOf(a, b) == [j \in 1..(b - a + 1) |-> <<a + j - 1, FALSE>>]

\* The indices of the jobs of a queue.
Indices(q) == {q[j][1] : j \in DOMAIN q}

\* The downloader was called once for every episode of S and for no other.
DownloadedOnce(S) == \A e \in Episodes : downloads[e] = IF e \in S THEN 1 ELSE 0

Max(a, b) == IF a > b THEN a ELSE b

\* get_feed has returned to attempt_update, which has returned to Config.update.
FeedReturned == pc = "saving" /\ cmd = "update"

\* get_feed has returned SUCCESS.
FeedSucceeded == FeedReturned /\ update_result \in {"True", "False"}

\* attempt_update has returned from a first contact whose drain ran to its end.
FirstContactDone == pc = "saving" /\ cmd = "update" /\ first_contact

\* The records of a cache that can be decoded, in their order.
RECURSIVE Decoded(_)
Decoded(c) ==
    IF c = <<>> THEN <<>>
    ELSE (IF decode_subscription(Head(c)) # None THEN <<Head(c)>> ELSE <<>>)
         \o Decoded(Tail(c))

\* The numbers of a list, and the flags a dict holds for a key.
Range(nums) == {nums[j] : j \in DOMAIN nums}
FlagsOf(d, k) == {p[2] : p \in {q \in d : q[1] = k}}

---------------------------------------------------------------------------
\* C1 (SpecGrow): over update cycles on a feed that only grows, with
\* successful fetches, no manual enqueue and no interruption, no episode is
\* passed to the downloader more than once.
C1_ExactlyOnce == \A e \in Episodes : downloads[e] <= 1

\* C2 (SpecGrow): finishing the job of one-based index i makes the watermark
\* max(previous watermark, i) and sets the flag i-1; and when attempt_update
\* has found N entries with a watermark below N and the drain has run to its
\* end, the watermark is N.
C2_WatermarkAfterJob ==
    [][/\ Finished =>
            /\ latest_entry_number' =
                   Some(Max(Val(latest_entry_number), entry_num + 1))
            /\ <<entry_num, TRUE>> \in entries_state_dict'
       /\ (pc = "drain" /\ pc' = "saving" /\ cmd = "update") =>
            latest_entry_number' = Some(Len(entries))]_vars

\* C3 (SpecShrink): once the watermark is set, no step of any operation unsets or
\* decreases it.
C3_WatermarkMonotone ==
    [][latest_entry_number # None =>
          /\ latest_entry_number' # None
          /\ Val(latest_entry_number') >= Val(latest_entry_number)]_vars

\* C4 (Spec): an interrupt while the job (i, overwrite) is in hand leaves
\* (i, true) at the front of the queue and the rest of the queue in its order.
C4_RequeueSameJob ==
    [][Interrupted => queue' = <<(<<entry_num + 1, TRUE>>)>> \o queue]_vars

\* C5 (Spec): when download-queue saves the cache after a drain, every job
\* that was in the saved queue before the drain is completed (its flag is
\* true) or is in the saved queue with an index in 1..total entries.
C5_NoJobLost ==
    [][(pc = "saving" /\ cmd = "download_queue" /\ pc' = "idle" /\ cache # None) =>
          \A i \in Indices(Val(cache).queue) :
              \/ <<i - 1, TRUE>> \in Val(cache').entries_state_dict
              \/ /\ i \in Indices(Val(cache').queue)
                 /\ i \in 1..Len(Val(cache').entries)]_vars

\* C6 (Spec): attempt_update with a successful fetch of N entries and the
\* watermark w set or just established: with w >= N it returns and the queue,
\* the flags and the downloads are as before; otherwise it appends exactly
\* (w+1, false), ..., (N, false).  A watermark already set is left as it was.
C6_NewJobsAppended ==
    [][(Fetched /\ latest_entry_number' # None) =>
          /\ latest_entry_number # None =>
                /\ latest_entry_number' = latest_entry_number
                /\ backlog_limit' = backlog_limit
          /\ entries_state_dict' = entries_state_dict
          /\ downloads' = downloads
          /\ IF Val(latest_entry_number') >= Len(entries')
             THEN queue' = queue /\ pc' = "saving" /\ update_result' = "True"
             ELSE /\ queue' = queue \o JobsOf(Val(latest_entry_number') + 1, Len(entries'))
                  /\ pc' = "drain"]_vars

\* C6 witness: new jobs were appended behind a job an interrupt had left.
C6_Witness ==
    /\ pc = "drain" /\ cmd = "update" /\ ~first_contact
    /\ Len(queue) = 3
    /\ queue[1][2] = TRUE /\ queue[2] = <<1, FALSE>> /\ queue[3] = <<2, FALSE>>

\* C7 (SpecGrow): first contact with download_backlog and the limit None or
\* 0: the watermark becomes 0, the jobs 1..N are appended, and when the drain
\* has run to its end every one of the N episodes went to the downloader.
C7_FullBacklog ==
    [][/\ (/\ Fetched /\ latest_entry_number = None /\ download_backlog
           /\ (backlog_limit = None \/ backlog_limit = Some(0))) =>
            /\ latest_entry_number' = Some(0)
            /\ queue' = queue \o JobsOf(1, Len(entries'))
       /\ (/\ FirstContactDone' /\ download_backlog
           /\ (backlog_limit' = None \/ backlog_limit' = Some(0))) =>
            DownloadedOnce(1..Len(entries))']_vars

C7_Witness ==
    /\ FirstContactDone /\ download_backlog /\ backlog_limit = Some(0)
    /\ Len(entries) = 3 /\ DownloadedOnce(1..3)

\* C8 (SpecGrow): first contact with download_backlog and the limit k,
\* 0 < k < N: the watermark becomes N - k, the jobs N-k+1..N are appended
\* oldest first, and when the drain has run to its end the downloader was
\* called for those k episodes and for no other.
C8_PartialBacklog ==
    [][/\ (/\ Fetched /\ latest_entry_number = None /\ download_backlog
           /\ backlog_limit # None
           /\ 0 < Val(backlog_limit) /\ Val(backlog_limit) < Len(entries')) =>
            /\ latest_entry_number' = Some(Len(entries') - Val(backlog_limit))
            /\ queue' = queue \o JobsOf(Len(entries') - Val(backlog_limit) + 1,
                                        Len(entries'))
       /\ (/\ FirstContactDone' /\ download_backlog /\ backlog_limit' # None
           /\ 0 < Val(backlog_limit') /\ Val(backlog_limit') < Len(entries')) =>
            DownloadedOnce((Len(entries) - Val(backlog_limit) + 1)..Len(entries))']_vars

C8_Witness ==
    /\ FirstContactDone /\ download_backlog /\ backlog_limit = Some(2)
    /\ Len(entries) = 3 /\ DownloadedOnce({2, 3})

\* C9 (SpecGrow): first contact with download_backlog and the limit k >= N,
\* k > 0: the limit is clamped to N, the watermark becomes 0, the jobs 1..N
\* are appended, and when the drain has run to its end every one of the N
\* episodes went to the downloader.
C9_ClampedBacklog ==
    [][/\ (/\ Fetched /\ latest_entry_number = None /\ download_backlog
           /\ backlog_limit # None
           /\ 0 < Val(backlog_limit) /\ Val(backlog_limit) >= Len(entries')) =>
            /\ backlog_limit' = Some(Len(entries'))
            /\ latest_entry_number' = Some(0)
            /\ queue' = queue \o JobsOf(1, Len(entries'))
       /\ (/\ FirstContactDone' /\ download_backlog /\ config.backlog_limit # None
           /\ 0 < Val(config.backlog_limit)
           /\ Val(config.backlog_limit) >= Len(entries')) =>
            DownloadedOnce(1..Len(entries))']_vars

C9_Witness ==
    /\ FirstContactDone /\ download_backlog /\ config.backlog_limit = Some(3)
    /\ backlog_limit = Some(2)
    /\ Len(entries) = 2 /\ DownloadedOnce({1, 2})

\* C10 (Spec): first contact with download_backlog and a limit below 0:
\* attempt_update returns False, the queue and the downloads are as before and
\* the watermark stays unset.
C10_NegativeLimit ==
    [][(/\ Fetched /\ latest_entry_number = None /\ download_backlog
        /\ backlog_limit # None /\ Val(backlog_limit) < 0) =>
          /\ update_result' = "False"
          /\ pc' = "saving"
          /\ queue' = queue
          /\ downloads' = downloads
          /\ latest_entry_number' = None
          /\ backlog_limit' = backlog_limit]_vars

C10_Witness ==
    /\ pc = "saving" /\ cmd = "update" /\ update_result = "False"
    /\ Len(entries) = 2 /\ latest_entry_number = None /\ queue = <<>>
    /\ DownloadedOnce({})

\* C11 (SpecGrow): first contact without download_backlog: the watermark
\* becomes the number of entries of the fetched feed, attempt_update returns
\* True at once, nothing is queued and the downloader is not called.
C11_NoBacklog ==
    [][(Fetched /\ latest_entry_number = None /\ ~download_backlog) =>
          /\ latest_entry_number' = Some(Len(entries'))
          /\ queue' = queue
          /\ downloads' = downloads
          /\ pc' = "saving"
          /\ update_result' = "True"]_vars

C11_Witness ==
    /\ FirstContactDone /\ ~download_backlog
    /\ Len(entries) = 3 /\ latest_entry_number = Some(3)
    /\ queue = <<>> /\ DownloadedOnce({})

\* C12 (SpecUrl): when a fetch of a get_feed call was answered 302, 303 or
\* 307, then after get_feed has returned, whatever the later answers were,
\* current_url is what it was before the first such redirect of the call, and
\* provided_url is the configured URL.
C12_TemporaryRedirect ==
    (FeedReturned /\ calls.first_temp # None) =>
        /\ current_url = calls.first_temp
        /\ provided_url = config.url

\* C13 (SpecUrl): when get_feed has returned SUCCESS, its last fetch but one
\* was answered 301 or 308 and no fetch of the call was redirected
\* temporarily, current_url is the target of that redirect, whatever earlier
\* cycles saw.
C13_PermanentRedirect ==
    (/\ FeedSucceeded /\ calls.prev # None /\ IsPermanent(Val(calls.prev))
     /\ calls.first_temp = None) =>
        current_url = Some(Val(calls.prev).href)

\* C14 (SpecUrl): when a fetch of a get_feed call, the first or a retry, was
\* answered 401 or 410, get_feed returns FAILURE, and after it has returned
\* current_url is None and provided_url is the configured URL.
C14_GoneClearsUrl ==
    (/\ FeedReturned /\ calls.last # None /\ Val(calls.last).has_status
     /\ Val(calls.last).status \in {401, 410}) =>
        /\ update_result = "FAILURE"
        /\ current_url = None
        /\ provided_url = config.url

C16_ProvidedUrlKept ==
    [][(pc \in {"feed", "drain", "dl"}) => provided_url' = provided_url]_vars

C16_Witness ==
    /\ FeedSucceeded /\ calls.prev # None /\ IsPermanent(Val(calls.prev))
    /\ Val(calls.prev).href = "u2" /\ current_url = Some("u2")
    /\ provided_url = "u1"

\* C17 (SpecRetry): get_feed run with attempt_count above
\* MAX_RECURSIVE_ATTEMPTS returns FAILURE without a transport call and leaves
\* the entries as they were.
C17_AttemptBound ==
    [][(pc = "feed" /\ attempt_count > MAX_RECURSIVE_ATTEMPTS) =>
          /\ pc' = "saving"
          /\ update_result' = "FAILURE"
          /\ calls' = calls
          /\ entries' = entries]_vars

C17_Witness ==
    /\ FeedReturned /\ update_result = "FAILURE"
    /\ calls.n = MAX_RECURSIVE_ATTEMPTS + 1
    /\ Len(entries) = 1

\* C18 (Spec): a step of enqueue that changes the queue appends one job whose
\* index lies in 1..len(entries) and is the index of no job already in the
\* queue; every other requested number leaves the queue as it was.
C18_EnqueueDedupes ==
    [][(pc = "idle" /\ pc' = "idle" /\ queue' # queue) =>
          \E i \in 1..Len(entries) :
              /\ i \notin Indices(queue)
              /\ queue' = Append(queue, <<i, TRUE>>)]_vars

\* C19 (SpecLoad): after load_state a user subscription whose name is the
\* name of a record of the cache has that record's feed history (entries,
\* flags, queue, watermark) and the user's name and URL, also when the URL
\* differs from the record's and when another record has the user's URL.
C19_MatchByName ==
    (pc = "idle" /\ ByName(cache, config.name) # None) =>
        /\ History = HistoryOf(Val(ByName(cache, config.name)))
        /\ name = config.name
        /\ provided_url = config.url

C19_Witness ==
    /\ pc = "idle" /\ config.name = "n1" /\ config.url = "u2"
    /\ cache = <<Cached("n1", "u1", 1), Cached("n2", "u2", 2)>>
    /\ History = HistoryOf(Cached("n1", "u1", 1))
    /\ provided_url = "u2"

\* C20 (SpecLoad): after load_state a user subscription whose name is in no
\* record of the cache but whose URL is the provided URL of one has that
\* record's feed history and the user's name; one matched by neither has an
\* empty feed history.
C20_MatchByUrl ==
    (pc = "idle" /\ ByName(cache, config.name) = None) =>
        IF ByUrl(cache, config.url) # None
        THEN /\ History = HistoryOf(Val(ByUrl(cache, config.url)))
             /\ name = config.name
        ELSE History = NoHistory

C20_Witness ==
    /\ pc = "idle" /\ config.name = "n2" /\ config.url = "u1"
    /\ cache = <<Cached("n1", "u2", 1), Cached("n1", "u1", 2)>>
    /\ History = HistoryOf(Cached("n1", "u1", 2))
    /\ name = "n2"

\* C21 (SpecLoad): after load_state a user subscription matched with a record
\* of the cache has the name, the URL, download_backlog and backlog_limit of
\* the user's config and the feed history of the record.
C21_ConfigWinsPolicy ==
    (pc = "idle" /\ Matched(cache, config.name, config.url) # None) =>
        /\ name = config.name
        /\ provided_url = config.url
        /\ download_backlog = config.download_backlog
        /\ backlog_limit = config.backlog_limit
        /\ History = HistoryOf(Val(Matched(cache, config.name, config.url)))

\* C22 (SpecDecode): load_state on a cache in which a record lacks name,
\* current_url or provided_url does not abort, and the user subscription is
\* matched with the records that can be decoded as if the cache held no
\* other: by-name first, then by-url, else it starts with no history.
C22_MalformedSkipped ==
    (pc # "start") =>
        /\ pc = "idle"
        /\ LET m == Matched(Decoded(cache), config.name, config.url) IN
           History = IF m # None THEN HistoryOf(Val(m)) ELSE NoHistory

\* C23 (SpecCmd): an index-taking command given an index outside
\* 0 <= index < number of loaded subscriptions, or (enqueue, mark, unmark) no
\* list or an empty list, is refused with BadCommandError, before the state is
\* loaded as well as after, and changes neither the subscription nor the cache.
C23_BadIndexRejected ==
    [][(/\ command' # command
        /\ \/ Val(command').sub_index \notin 0..0
           \/ /\ Val(command').kind \in ListCommands
              /\ Val(command').nums \in {None, Some(<<>>)}) =>
          /\ Val(command').error = "BadCommandError"
          /\ pc' = pc
          /\ UNCHANGED <<subVars, feedVars, valVars, cache>>]_vars

\* C24 (SpecFail): no failure of attempt_update for a subscription during
\* update-all (a fetch that fails, an invalid backlog limit, an error raised
\* by the downloader) leaves the loop of Config.update: attempt_update
\* returns, the cache is saved and the loop goes on to the next subscription.
C24_UpdateLoopGoesOn ==
    [][(cmd = "update" /\ pc \in {"feed", "drain", "dl"}) =>
          pc' \in {"feed", "drain", "dl", "saving"}]_vars

\* C25 (Spec): when attempt_update returns to Config.update without having
\* been interrupted, whatever the fetch returned, no job is left in the
\* queue: those an interrupted drain or a manual enqueue had left before the
\* update have been taken through the downloader.
C25_UpdateDrainsQueue ==
    [][(cmd = "update" /\ pc \in {"feed", "drain"} /\ pc' = "saving") =>
          queue' = <<>>]_vars

\* C26 (SpecMark): mark (value true) and unmark (value false) of a list give
\* the flag n-1 the value for every requested n in 1..len(entries); a
\* requested number outside that range, and one requested twice, raise
\* nothing and create no key; the flags of all other keys, the queue and the
\* watermark are as before.
C26_MarkExact ==
    [][\A nums \in MarkLists, value \in BOOLEAN :
          Mark(nums, value) =>
              /\ \A k \in (-2)..MaxMark :
                    FlagsOf(entries_state_dict', k) =
                        IF k + 1 \in Range(nums) /\ k + 1 \in 1..Len(entries)
                        THEN {value}
                        ELSE FlagsOf(entries_state_dict, k)
              /\ queue' = queue
              /\ latest_entry_number' = latest_entry_number
              /\ pc' = "idle"]_vars

C26_Witness ==
    /\ pc = "idle" /\ Len(entries) = 2 /\ queue # <<>>
    /\ entries_state_dict = {<<0, TRUE>>, <<1, FALSE>>}

\* C27 (Spec): in every state, after any fetches (of fewer entries than
\* before as well), drains, interrupts, enqueue, mark and unmark, every key of
\* entries_state_dict is at least 0 and below len(entries).
C27_StatusKeysInRange ==
    \A p \in entries_state_dict : 0 <= p[1] /\ p[1] < Len(entries)

\* C28 (SpecUrl): whenever get_feed is not running, between update cycles,
\* temp_url is unset.
C28_TempUrlCleared == (pc # "feed") => temp_url = None

\* C29 (SpecChain): get_feed called with attempt_count 0 returns, whatever
\* the answers are and however long the chain of redirects and other answers
\* that are not 200 is; it makes at most MAX_RECURSIVE_ATTEMPTS + 1 transport
\* calls, returns FAILURE when the last of them asked for one more attempt,
\* and never returns ATTEMPT_AGAIN.
C29_BoundedRetry ==
    /\ [](/\ calls.n <= MAX_RECURSIVE_ATTEMPTS + 1
          /\ FeedReturned => update_result # "ATTEMPT_AGAIN"
          /\ (/\ FeedReturned /\ calls.n = MAX_RECURSIVE_ATTEMPTS + 1
              /\ Val(calls.last) # OK200) => update_result = "FAILURE")
    /\ (pc = "feed") ~> (pc = "saving")

C29_Witness ==
    /\ FeedReturned /\ update_result = "FAILURE"
    /\ calls.n = MAX_RECURSIVE_ATTEMPTS + 1
    /\ IsTemporary(Val(calls.last)) /\ IsPermanent(Val(calls.prev))

\* C30 (SpecEtag): every transport call is given exactly the validators that
\* are stored when it is made: none, the etag, last_modified, or both; in the
\* second and later fetches of a subscription built in this process as well
\* as in those of one decoded from the cache.
C30_SendsStoredValidators ==
    (calls.n > 0) => calls.sent = calls.stored

\* C31 (SpecRefresh): a transport call, whatever get_feed makes of its
\* answer, leaves in etag and last_modified the validators the answer
\* carries; a validator the answer does not carry keeps its stored value.
C31_ValidatorsRefreshed ==
    [][(calls'.n = calls.n + 1) =>
          /\ etag' = IF Val(calls'.last).etag # None
                     THEN Val(calls'.last).etag ELSE etag
          /\ last_modified' = IF Val(calls'.last).modified # None
                              THEN Val(calls'.last).modified ELSE last_modified]_vars

C31_Witness ==
    /\ FeedReturned /\ update_result = "FAILURE"
    /\ calls.last = Some(Validated(NotFound, Some("e1"), None))
    /\ calls.prev = Some(Validated(ServerError, None, Some("m1")))
    /\ calls.stored = [etag |-> None, modified |-> Some("m1")]
    /\ etag = Some("e1") /\ last_modified = Some("m1")

C33_QueueIndicesDistinct ==
    \A i, j \in 1..Len(queue) : i # j => queue[i][1] # queue[j][1]

\* C34 (SpecGrow): when a job of the drain has been downloaded, the cache
\* holds the queue without that job, the watermark as the job left it and
\* the flags with the job's entry set, before the next job is taken.
C34_DrainStepPersisted ==
    [][Finished =>
          /\ cache' # None
          /\ Val(cache').queue = queue'
          /\ Val(cache').latest_entry_number = latest_entry_number'
          /\ Val(cache').entries_state_dict = entries_state_dict']_vars

\* C35 (SpecRefresh): whenever save_cache encodes the subscription, decoding
\* the encoded record gives back its name, both URLs, the policy fields, the
\* entries, the flags, the queue, the watermark, the etag and last_modified.
C35_RoundTrip ==
    (pc = "saving") =>
        LET d == decode_subscription(encode_subscription) IN
        /\ d # None
        /\ Val(d).name = name
        /\ Val(d).current_url = current_url
        /\ Val(d).provided_url = provided_url
        /\ Val(d).download_backlog = download_backlog
        /\ Val(d).backlog_limit = backlog_limit
        /\ Val(d).entries = entries
        /\ Val(d).entries_state_dict = entries_state_dict
        /\ Val(d).queue = queue
        /\ Val(d).latest_entry_number = latest_entry_number
        /\ Val(d).etag = etag
        /\ Val(d).last_modified = last_modified

\* C36 (SpecGone): once current_url is None and the config still names the
\* same URL, it stays None in every step, a save and a reload of the cache
\* included, no step makes a transport call, and a get_feed that runs
\* returns FAILURE.
C36_GoneStaysUnusable ==
    [][(current_url = None) =>
          /\ current_url' = None
          /\ calls'.n # calls.n + 1
          /\ (pc = "feed") => (pc' = "saving" /\ update_result' = "FAILURE")]_vars

\* C37 (Spec): in every reachable state, after a fetch that returned fewer
\* entries and after an interrupt's requeue too, the entry index of every
\* job of the queue is one of 1..Len(entries).
C37_JobsInRange ==
    \A i \in 1..Len(queue) : queue[i][1] \in 1..Len(entries)

\* C38 (SpecShared): after load_state, whatever the config and the cache, no
\* two positions of the subscription list hold the same Subscription object
\* (and with it the same feed state).
C38_NoSharedSubscription ==
    \A i, j \in DOMAIN subscriptions : i # j => subscriptions[i] # subscriptions[j]

\* C39 (SpecGrow): no step of attempt_update, the first contact that clamps
\* the backlog limit included, changes backlog_limit or download_backlog, and
\* the save that follows writes them as they were before the update.
C39_PolicyKept ==
    [][/\ (pc \in {"feed", "drain", "dl"}) =>
            /\ backlog_limit' = backlog_limit
            /\ download_backlog' = download_backlog
       /\ (pc = "saving" /\ pc' = "idle" /\ cache # None) =>
            /\ Val(cache').backlog_limit = Val(cache).backlog_limit
            /\ Val(cache').download_backlog = Val(cache).download_backlog]_vars

===========================================================================
